---- MODULE Spec2Model ----
(***************************************************************************)
(* Model of the local vector store and retrieval engine of                 *)
(* src/src/lib/vectorDatabase.ts (class VectorDatabase) and of its caller  *)
(* ContentService in src/src/lib/qaService.ts.                             *)
(*                                                                         *)
(* Text is a sequence of UTF-16 code units (what charCodeAt returns).      *)
(* Positions are JavaScript positions (0-based), a substring is the        *)
(* half-open range [lo, hi) of the text it was cut from.                   *)
(***************************************************************************)
EXTENDS Integers, Sequences, FiniteSets, TLC

\* ------------------------------------------------------------------ text

Min(a, b) == IF a < b THEN a ELSE b

Max(a, b) == IF a > b THEN a ELSE b

SetMax(S) == CHOOSE x \in S : \A y \in S : y <= x

SetMin(S) == CHOOSE x \in S : \A y \in S : x <= y

\* String.prototype.trim strips WhiteSpace and LineTerminator code units.
IsWhitespace(c) == c \in {9, 10, 11, 12, 13, 32, 160}

\* String.prototype.toLowerCase on the ASCII letters the texts are made of.
LowerChar(c) == IF c >= 65 /\ c <= 90 THEN c + 32 ELSE c

ToLowerCase(s) == [i \in 1..Len(s) |-> LowerChar(s[i])]

Clamp(x, len) == Max(0, Min(x, len))

\* s.substring(a, b) as a range of s: both ends are clamped to [0, length] and
\* swapped when a > b.
SubstringRange(len, a, b) ==
    [lo |-> Min(Clamp(a, len), Clamp(b, len)),
     hi |-> Max(Clamp(a, len), Clamp(b, len))]

RangeLen(r) == r.hi - r.lo

\* The string a range stands for.
RangeText(text, r) == SubSeq(text, r.lo + 1, r.hi)

\* chunk.lastIndexOf(ch), an index into the chunk, -1 when ch does not occur.
LastIndexOf(text, r, ch) ==
    LET hits == {i \in r.lo..(r.hi - 1) : text[i + 1] = ch}
    IN  IF hits = {} THEN -1 ELSE SetMax(hits) - r.lo

\* chunk.trim() as a range of the text the chunk was cut from.
TrimRange(text, r) ==
    LET solid == {i \in r.lo..(r.hi - 1) : ~IsWhitespace(text[i + 1])}
    IN  IF solid = {} THEN [lo |-> r.lo, hi |-> r.lo]
        ELSE [lo |-> SetMin(solid), hi |-> SetMax(solid) + 1]

\* ----------------------------------------------------------------- texts

\* "React is a JavaScript library. It uses components."
ReactContent ==
    <<82, 101, 97, 99, 116, 32, 105, 115, 32, 97, 32, 74, 97, 118, 97, 83,
      99, 114, 105, 112, 116, 32, 108, 105, 98, 114, 97, 114, 121, 46, 32,
      73, 116, 32, 117, 115, 101, 115, 32, 99, 111, 109, 112, 111, 110,
      101, 110, 116, 115, 46>>

\* "React Docs"
ReactTitle ==
    <<82, 101, 97, 99, 116, 32, 68, 111, 99, 115>>

\* The article of vectorDatabaseTest.ts, Test 2.
TestArticleContent ==
    <<84, 104, 105, 115, 32, 105, 115, 32, 97, 32, 116, 101, 115, 116, 32,
      97, 114, 116, 105, 99, 108, 101, 32, 97, 98, 111, 117, 116, 32, 97,
      114, 116, 105, 102, 105, 99, 105, 97, 108, 32, 105, 110, 116, 101,
      108, 108, 105, 103, 101, 110, 99, 101, 32, 97, 110, 100, 32, 109, 97,
      99, 104, 105, 110, 101, 32, 108, 101, 97, 114, 110, 105, 110, 103,
      46, 32, 73, 116, 32, 99, 111, 110, 116, 97, 105, 110, 115, 32, 105,
      110, 102, 111, 114, 109, 97, 116, 105, 111, 110, 32, 97, 98, 111,
      117, 116, 32, 110, 101, 117, 114, 97, 108, 32, 110, 101, 116, 119,
      111, 114, 107, 115, 44, 32, 97, 108, 103, 111, 114, 105, 116, 104,
      109, 115, 44, 32, 97, 110, 100, 32, 100, 97, 116, 97, 32, 112, 114,
      111, 99, 101, 115, 115, 105, 110, 103, 46, 32, 84, 104, 101, 32, 99,
      111, 110, 116, 101, 110, 116, 32, 105, 115, 32, 100, 101, 115, 105,
      103, 110, 101, 100, 32, 116, 111, 32, 116, 101, 115, 116, 32, 116,
      104, 101, 32, 118, 101, 99, 116, 111, 114, 32, 100, 97, 116, 97, 98,
      97, 115, 101, 32, 102, 117, 110, 99, 116, 105, 111, 110, 97, 108,
      105, 116, 121, 32, 97, 110, 100, 32, 115, 101, 97, 114, 99, 104, 32,
      99, 97, 112, 97, 98, 105, 108, 105, 116, 105, 101, 115, 46>>

\* "Test Article"
TestArticleTitle ==
    <<84, 101, 115, 116, 32, 65, 114, 116, 105, 99, 108, 101>>

\* "This is a very long piece of content. "
LongSentence ==
    <<84, 104, 105, 115, 32, 105, 115, 32, 97, 32, 118, 101, 114, 121, 32,
      108, 111, 110, 103, 32, 112, 105, 101, 99, 101, 32, 111, 102, 32, 99,
      111, 110, 116, 101, 110, 116, 46, 32>>

\* 'This is a very long piece of content. '.repeat(k)
RepeatText(k) ==
    [i \in 1..(k * Len(LongSentence)) |-> LongSentence[((i - 1) % Len(LongSentence)) + 1]]

\* The longest repetition the chunker is run on.
MaxRepeat == 4

\* The texts the chunker is run on.
ChunkTexts ==
    <<ReactContent, TestArticleContent>> \o [k \in 1..MaxRepeat |-> RepeatText(k)]

\* ------------------------------------------------------------- chunkContent

DefaultChunkSize == 1000

DefaultOverlap == 200

\* A segment is emitted only when its trimmed length exceeds this.
MinChunkLength == 50

\* Sentence terminators: '.', '!', '?'
Period == 46

Exclamation == 33

Question == 63

\* The test of line 193.
MeaningfulLE(n) == n >= MinChunkLength

Meaningful(n) == n > MinChunkLength

\* What line 194 pushes for a raw segment.
Emitted(text, seg) == TrimRange(text, seg)

\* lastBreak > start + chunkSize * 0.7, in tenths (the products chunkSize * 0.7
\* of the sizes used are exact in IEEE doubles: 7, 42, 70, 700).
BeyondThreshold(lastBreak, start, chunkSize) ==
    10 * lastBreak > 10 * start + 7 * chunkSize

\* One iteration of the while loop: the segment cut, the next start, and what
\* is pushed.
ChunkStep(text, chunkSize, overlap, start) ==
    LET len       == Len(text)
        end       == Min(start + chunkSize, len)
        window    == SubstringRange(len, start, end)
        lastBreak == Max(LastIndexOf(text, window, Period),
                         Max(LastIndexOf(text, window, Exclamation),
                             LastIndexOf(text, window, Question)))
        cut       == SubstringRange(RangeLen(window), 0, lastBreak + 1)
        atBreak   == end < len /\ BeyondThreshold(lastBreak, start, chunkSize)
        seg       == IF atBreak
                     THEN [lo |-> window.lo + cut.lo, hi |-> window.lo + cut.hi]
                     ELSE window
        next      == IF end < len
                     THEN IF atBreak THEN start + lastBreak + 1 - overlap
                                     ELSE end - overlap
                     ELSE end
    IN  [start |-> next,
         seg   |-> seg,
         emit  |-> Meaningful(RangeLen(TrimRange(text, seg))),
         piece |-> Emitted(text, seg)]

\* chunkContent(content, chunkSize, overlap): the loop run to its end.
RECURSIVE ChunkFrom(_, _, _, _, _)
ChunkFrom(text, chunkSize, overlap, start, acc) ==
    IF start >= Len(text) THEN acc
    ELSE LET s == ChunkStep(text, chunkSize, overlap, start)
         IN  ChunkFrom(text, chunkSize, overlap, s.start,
                       IF s.emit THEN Append(acc, s.piece) ELSE acc)

chunkContent(text, chunkSize, overlap) == ChunkFrom(text, chunkSize, overlap, 0, <<>>)

\* ------------------------------------------------------------ documents

\* "Long Content"
LongTitle ==
    <<76, 111, 110, 103, 32, 67, 111, 110, 116, 101, 110, 116>>

\* Repetitions of the sentence in the long document (1140 characters, which
\* the default parameters cut into two chunks).
LongRepeat == 30

\* The pages of a run: what a store call is given, and what extraction finds
\* at the url.
Docs ==
    <<[url |-> "https://react.dev", title |-> ReactTitle, content |-> ReactContent],
      [url     |-> "https://test.example.com",
       title   |-> TestArticleTitle,
       content |-> TestArticleContent],
      [url     |-> "https://example.com/long-content",
       title   |-> LongTitle,
       content |-> RepeatText(LongRepeat)]>>

ReactDoc == 1

TestDoc == 2

LongDoc == 3

DocIds == 1..Len(Docs)

\* this.chunkContent(content) of storeContent, per document.
DocChunks == [d \in DocIds |-> chunkContent(Docs[d].content, DefaultChunkSize, DefaultOverlap)]

\* MockLLMService.extractContentFromUrl returns fetched content only when it
\* is longer than 100 characters, and generated content (longer) otherwise.
ExtractedDocs == {d \in DocIds : Len(Docs[d].content) > 100}

Urls == {Docs[d].url : d \in DocIds}

\* The page at a url.
DocAt(url) == CHOOSE d \in DocIds : Docs[d].url = url

\* ------------------------------------------------------------ embeddings

vectorDimensions == 1536

\* An embedding argument: whether it is an array, and its .length (-1 for
\* undefined).  Every array of vectorDimensions numbers in the model is the
\* same vector.
EmptyEmbedding == [isArray |-> TRUE, length |-> 0]

FullEmbedding == [isArray |-> TRUE, length |-> vectorDimensions]

\* generateMockEmbedding(content): vectorDimensions numbers.
generateMockEmbedding(text) == [isArray |-> TRUE, length |-> vectorDimensions]

\* JavaScript truthiness of an embedding argument: arrays (the empty one too)
\* and objects are truthy.
Truthy(embedding) == embedding.isArray

\* embedding || this.generateMockEmbedding(chunks[i])
ChunkEmbedding(embedding, text) ==
    IF Truthy(embedding) THEN embedding ELSE generateMockEmbedding(text)

\* ------------------------------------------------------------ retrieval

\* hay.includes(needle)
Includes(hay, needle) ==
    \E i \in 0..(Len(hay) - Len(needle)) :
        \A j \in 1..Len(needle) : hay[i + j] = needle[j]

RECURSIVE SortedSeq(_)
SortedSeq(S) ==
    IF S = {} THEN <<>> ELSE LET m == SetMin(S) IN <<m>> \o SortedSeq(S \ {m})

\* s.split(' ')
SplitSpaces(s) ==
    LET seps == <<0>> \o SortedSeq({i \in 1..Len(s) : s[i] = 32}) \o <<Len(s) + 1>>
    IN  [k \in 1..(Len(seps) - 1) |-> SubSeq(s, seps[k] + 1, seps[k + 1] - 1)]

LongerThanTwo(w) == Len(w) > 2

\* query.split(' ').filter(word => word.length > 2)
QueryWords(query) == SelectSeq(SplitSpaces(query), LongerThanTwo)

\* Every pair of adjacent words only.
generateQueryPhrasesPairs(query) ==
    LET words == QueryWords(query)
    IN  [i \in 1..(Len(words) - 1) |-> words[i] \o <<32>> \o words[i + 1]]

\* generateQueryPhrases: the query itself, then every pair of adjacent words.
generateQueryPhrases(query) ==
    LET words == QueryWords(query)
    IN  <<query>> \o [i \in 1..(Len(words) - 1) |-> words[i] \o <<32>> \o words[i + 1]]

\* synonymMap of getSynonyms: each row is <<word, <<synonyms>>>>.
SynonymMap ==
    <<
      \* 'ai': ['artificial intelligence', 'machine learning', 'intelligence', 'smart']
      <<<<97, 105>>,
        <<<<97, 114, 116, 105, 102, 105, 99, 105, 97, 108, 32, 105, 110, 116, 101, 108, 108, 105, 103, 101, 110, 99, 101>>,
          <<109, 97, 99, 104, 105, 110, 101, 32, 108, 101, 97, 114, 110, 105, 110, 103>>,
          <<105, 110, 116, 101, 108, 108, 105, 103, 101, 110, 99, 101>>,
          <<115, 109, 97, 114, 116>>>>>>,
      \* 'intelligence': ['ai', 'artificial', 'smart', 'cognitive', 'brain']
      <<<<105, 110, 116, 101, 108, 108, 105, 103, 101, 110, 99, 101>>,
        <<<<97, 105>>,
          <<97, 114, 116, 105, 102, 105, 99, 105, 97, 108>>,
          <<115, 109, 97, 114, 116>>,
          <<99, 111, 103, 110, 105, 116, 105, 118, 101>>,
          <<98, 114, 97, 105, 110>>>>>>,
      \* 'artificial': ['ai', 'intelligence', 'synthetic', 'man-made']
      <<<<97, 114, 116, 105, 102, 105, 99, 105, 97, 108>>,
        <<<<97, 105>>,
          <<105, 110, 116, 101, 108, 108, 105, 103, 101, 110, 99, 101>>,
          <<115, 121, 110, 116, 104, 101, 116, 105, 99>>,
          <<109, 97, 110, 45, 109, 97, 100, 101>>>>>>,
      \* 'machine': ['computer', 'automated', 'system', 'algorithm']
      <<<<109, 97, 99, 104, 105, 110, 101>>,
        <<<<99, 111, 109, 112, 117, 116, 101, 114>>,
          <<97, 117, 116, 111, 109, 97, 116, 101, 100>>,
          <<115, 121, 115, 116, 101, 109>>,
          <<97, 108, 103, 111, 114, 105, 116, 104, 109>>>>>>,
      \* 'learning': ['training', 'education', 'knowledge', 'understanding']
      <<<<108, 101, 97, 114, 110, 105, 110, 103>>,
        <<<<116, 114, 97, 105, 110, 105, 110, 103>>,
          <<101, 100, 117, 99, 97, 116, 105, 111, 110>>,
          <<107, 110, 111, 119, 108, 101, 100, 103, 101>>,
          <<117, 110, 100, 101, 114, 115, 116, 97, 110, 100, 105, 110, 103>>>>>>,
      \* 'neural': ['brain', 'network', 'cognitive', 'intelligence']
      <<<<110, 101, 117, 114, 97, 108>>,
        <<<<98, 114, 97, 105, 110>>,
          <<110, 101, 116, 119, 111, 114, 107>>,
          <<99, 111, 103, 110, 105, 116, 105, 118, 101>>,
          <<105, 110, 116, 101, 108, 108, 105, 103, 101, 110, 99, 101>>>>>>,
      \* 'network': ['system', 'connection', 'web', 'structure']
      <<<<110, 101, 116, 119, 111, 114, 107>>,
        <<<<115, 121, 115, 116, 101, 109>>,
          <<99, 111, 110, 110, 101, 99, 116, 105, 111, 110>>,
          <<119, 101, 98>>,
          <<115, 116, 114, 117, 99, 116, 117, 114, 101>>>>>>,
      \* 'algorithm': ['method', 'procedure', 'process', 'technique']
      <<<<97, 108, 103, 111, 114, 105, 116, 104, 109>>,
        <<<<109, 101, 116, 104, 111, 100>>,
          <<112, 114, 111, 99, 101, 100, 117, 114, 101>>,
          <<112, 114, 111, 99, 101, 115, 115>>,
          <<116, 101, 99, 104, 110, 105, 113, 117, 101>>>>>>,
      \* 'data': ['information', 'facts', 'details', 'content']
      <<<<100, 97, 116, 97>>,
        <<<<105, 110, 102, 111, 114, 109, 97, 116, 105, 111, 110>>,
          <<102, 97, 99, 116, 115>>,
          <<100, 101, 116, 97, 105, 108, 115>>,
          <<99, 111, 110, 116, 101, 110, 116>>>>>>,
      \* 'model': ['system', 'framework', 'structure', 'approach']
      <<<<109, 111, 100, 101, 108>>,
        <<<<115, 121, 115, 116, 101, 109>>,
          <<102, 114, 97, 109, 101, 119, 111, 114, 107>>,
          <<115, 116, 114, 117, 99, 116, 117, 114, 101>>,
          <<97, 112, 112, 114, 111, 97, 99, 104>>>>>>
    >>

\* aiTerms of hasSemanticRelevance: ['ai', 'artificial intelligence', 'machine learning', 'neural', 'algorithm', 'data science']
AiTerms ==
    <<<<97, 105>>,
      <<97, 114, 116, 105, 102, 105, 99, 105, 97, 108, 32, 105, 110, 116, 101, 108, 108, 105, 103, 101, 110, 99, 101>>,
      <<109, 97, 99, 104, 105, 110, 101, 32, 108, 101, 97, 114, 110, 105, 110, 103>>,
      <<110, 101, 117, 114, 97, 108>>,
      <<97, 108, 103, 111, 114, 105, 116, 104, 109>>,
      <<100, 97, 116, 97, 32, 115, 99, 105, 101, 110, 99, 101>>>>

\* aiContentTerms of hasSemanticRelevance: ['artificial intelligence', 'machine learning', 'neural network', 'algorithm', 'data', 'intelligence', 'learning']
AiContentTerms ==
    <<<<97, 114, 116, 105, 102, 105, 99, 105, 97, 108, 32, 105, 110, 116, 101, 108, 108, 105, 103, 101, 110, 99, 101>>,
      <<109, 97, 99, 104, 105, 110, 101, 32, 108, 101, 97, 114, 110, 105, 110, 103>>,
      <<110, 101, 117, 114, 97, 108, 32, 110, 101, 116, 119, 111, 114, 107>>,
      <<97, 108, 103, 111, 114, 105, 116, 104, 109>>,
      <<100, 97, 116, 97>>,
      <<105, 110, 116, 101, 108, 108, 105, 103, 101, 110, 99, 101>>,
      <<108, 101, 97, 114, 110, 105, 110, 103>>>>

\* 'what'
WordWhat == <<119, 104, 97, 116>>

\* 'how'
WordHow == <<104, 111, 119>>

\* 'why'
WordWhy == <<119, 104, 121>>

\* 'when'
WordWhen == <<119, 104, 101, 110>>

\* 'where'
WordWhere == <<119, 104, 101, 114, 101>>

\* getSynonyms(word)
getSynonyms(word) ==
    IF \E k \in 1..Len(SynonymMap) : SynonymMap[k][1] = word
    THEN SynonymMap[CHOOSE k \in 1..Len(SynonymMap) : SynonymMap[k][1] = word][2]
    ELSE <<>>

hasSemanticRelevance(query, contentText) ==
    /\ \E t \in 1..Len(AiTerms) : Includes(ToLowerCase(query), AiTerms[t])
    /\ \E t \in 1..Len(AiContentTerms) : Includes(contentText, AiContentTerms[t])

\* How many elements of a sequence of strings occur in a text.
CountIncluded(hay, needles) == Cardinality({k \in 1..Len(needles) : Includes(hay, needles[k])})

RECURSIVE SumSeq(_)
SumSeq(s) == IF s = <<>> THEN 0 ELSE Head(s) + SumSeq(Tail(s))

\* The score weights of textSearch, in tenths.
TitleWeight == 10

ContentWeight == 8

PhraseWeight == 6

WordWeight == 3

SynonymWeight == 2

SemanticWeight == 4

\* The relevance textSearch gives a chunk with this title and content, in
\* tenths (the sum is exact here; the code adds doubles).
TextRelevance(query, title, chunkText) ==
    LET queryLower   == ToLowerCase(query)
        queryWords   == QueryWords(queryLower)
        contentLower == ToLowerCase(chunkText)
    IN    (IF Includes(ToLowerCase(title), queryLower) THEN TitleWeight ELSE 0)
        + (IF Includes(contentLower, queryLower) THEN ContentWeight ELSE 0)
        + PhraseWeight * CountIncluded(contentLower, generateQueryPhrases(queryLower))
        + WordWeight * CountIncluded(contentLower, queryWords)
        + SynonymWeight * SumSeq([w \in 1..Len(queryWords) |->
                                    CountIncluded(contentLower, getSynonyms(queryWords[w]))])
        + (IF hasSemanticRelevance(queryLower, contentLower) THEN SemanticWeight ELSE 0)


\* ----------------------------------------------------------------- queries

\* "React"
QueryReact ==
    <<82, 101, 97, 99, 116>>

\* "What is React?"
QueryWhatIsReact ==
    <<87, 104, 97, 116, 32, 105, 115, 32, 82, 101, 97, 99, 116, 63>>

\* "artificial intelligence"
QueryAI ==
    <<97, 114, 116, 105, 102, 105, 99, 105, 97, 108, 32, 105, 110, 116,
      101, 108, 108, 105, 103, 101, 110, 99, 101>>

\* "content"
QueryWordContent == <<99, 111, 110, 116, 101, 110, 116>>

\* ""
QueryEmpty == <<>>

Queries == <<QueryReact, QueryWhatIsReact, QueryAI, QueryWordContent, QueryEmpty>>

QueryIds == 1..Len(Queries)

\* The queries searchContent is called with, and the questions of queryContent.
SearchQueries == {1, 3, 4, 5}

Questions == {2, 3}

\* TextRelevance of every query for every chunk of every document.
RelevanceTable ==
    [q \in QueryIds |->
        [d \in DocIds |->
            [i \in 1..Len(DocChunks[d]) |->
                TextRelevance(Queries[q], Docs[d].title,
                              RangeText(Docs[d].content, DocChunks[d][i]))]]]

\* ---------------------------------------------------------------- state

\* The chunker as a loop: one run on one text with one parameter pair.
VARIABLES cText, cSize, cOverlap, cStart, cChunks, cSegs, cPc

chunkVars == <<cText, cSize, cOverlap, cStart, cChunks, cSegs, cPc>>

VARIABLES
    content,          \* object store 'content': the ContentItems
    chunks,           \* object store 'chunks'
    embeddings,       \* object store 'embeddings'
    queries,          \* object store 'queries': the QueryRecords
    nextId,           \* content ids generated so far, plus one
    nextQueryId,      \* query ids generated so far, plus one
    pendingTx,        \* transactions created whose outcome is still to come
    faults,           \* storage failures so far
    useMockServices,  \* ContentService.useMockServices
    dbOpens,          \* whether indexedDB exists and the database opens
    sc,               \* the storeContent call in progress
    ing,              \* the ingestUrl call in progress
    rd,               \* the searchContent or queryContent call in progress
    ret,              \* what the last step returned to its callers
    resolvedDeletes,  \* ids whose deleteContent call has resolved
    cleared,          \* clearAllData has resolved and no store, ingest or query call was made since
    calls             \* calls made so far

dbVars == <<content, chunks, embeddings, queries>>

storeVars ==
    <<content, chunks, embeddings, queries, nextId, nextQueryId, pendingTx, faults,
      useMockServices, dbOpens, sc, ing, rd, ret, resolvedDeletes, cleared, calls>>

\* The calls of the private functions made on their own: the texts given to
\* generateMockEmbedding with what it returned, and the arguments and the
\* result of a cosineSimilarity call.
VARIABLES eLog, vecA, vecB, similarity, cosPc

fnVars == <<eLog, vecA, vecB, similarity, cosPc>>

vars == <<chunkVars, storeVars, fnVars>>

NoCall == [pc |-> "idle"]

\* The store before any call.
StoreInit ==
    /\ content = {}
    /\ chunks = {}
    /\ embeddings = {}
    /\ queries = {}
    /\ nextId = 1
    /\ nextQueryId = 1
    /\ pendingTx = <<>>
    /\ faults = 0
    /\ sc = NoCall
    /\ ing = NoCall
    /\ rd = NoCall
    /\ calls = 0
    /\ ret = <<>>
    /\ resolvedDeletes = {}
    /\ cleared = FALSE

\* No call of a private function on its own.
FnInit ==
    /\ eLog = <<>>
    /\ vecA = <<>>
    /\ vecB = <<>>
    /\ similarity = [dot |-> 0, normA |-> 1, normB |-> 1]
    /\ cosPc = "off"

\* ------------------------------------------------------ the object stores

\* IndexedDB runs transactions with overlapping scopes in the order they were
\* created: a request on a store waits for the earlier transactions on it.
\* deleteContent's transaction is on content, chunks and embeddings,
\* clearAllData's on all four stores.
Covers(tx, storeName) == tx.kind = "clear" \/ storeName # "queries"

Blocked(storeName) == \E i \in 1..Len(pendingTx) : Covers(pendingTx[i], storeName)

\* store.put(data): an upsert by key.
Put(records, data) == {r \in records : r.id # data.id} \cup {data}

\* The unique index 'url' of the content store: a put fails when another key
\* holds the url.
UrlUnique(item) == \A c \in content : c.url = item.url => c.id = item.id

\* The string a chunk's content stands for.
ChunkText(c) == RangeText(Docs[c.content.doc].content, c.content)

\* metadata.overlap of every chunk but the first, line 226.
MetadataOverlap == 200

\* storeContent, lines 213-231: chunk i (0-based) of a new item.
MakeChunk(contentId, url, d, embedding, i) ==
    LET piece == DocChunks[d][i + 1]
    IN  [id         |-> <<contentId, i>>,
         contentId  |-> contentId,
         url        |-> url,
         title      |-> d,
         content    |-> [doc |-> d, lo |-> piece.lo, hi |-> piece.hi],
         chunkIndex |-> i,
         embedding  |-> ChunkEmbedding(embedding,
                                       RangeText(Docs[d].content, piece)),
         metadata   |-> [chunkSize |-> RangeLen(piece),
                         overlap   |-> IF i > 0 THEN MetadataOverlap ELSE 0]]

\* storeContent, lines 233-243 (the timestamps are left out).
MakeItem(contentId, url, d, embedding) ==
    [id          |-> contentId,
     url         |-> url,
     title       |-> d,
     content     |-> d,
     chunks      |-> [k \in 1..Len(DocChunks[d]) |->
                        MakeChunk(contentId, url, d, embedding, k - 1)],
     totalChunks |-> Len(DocChunks[d])]

\* if (embedding && embedding.length > 0), line 254
StoresEmbedding(embedding) == Truthy(embedding) /\ embedding.length > 0

\* Order of the keys `${contentId}_chunk_${i}`; content ids grow with Date.now().
KeyBefore(a, b) == a[1] < b[1] \/ (a[1] = b[1] /\ a[2] < b[2])

\* getAllFromStore(db, 'chunks'): the records in key order.
RECURSIVE InKeyOrder(_)
InKeyOrder(records) ==
    IF records = {} THEN <<>>
    ELSE LET first == CHOOSE r \in records : \A o \in records : o = r \/ KeyBefore(r.id, o.id)
         IN  <<first>> \o InKeyOrder(records \ {first})

\* The relevance textSearch computes for a stored chunk: a stored chunk is
\* chunk chunkIndex of document title, whose relevance RelevanceTable holds.
ChunkRelevance(q, c) == RelevanceTable[q][c.title][c.chunkIndex + 1]

\* The results are left in the order the store gave them.
KeepKeyOrder(results) == results

\* results.sort((a, b) => b.relevance - a.relevance): a stable sort.
RECURSIVE SortByRelevance(_)
SortByRelevance(results) ==
    IF results = <<>> THEN <<>>
    ELSE LET best == CHOOSE k \in 1..Len(results) :
                        /\ \A j \in 1..Len(results) : results[j].relevance <= results[k].relevance
                        /\ \A j \in 1..(k - 1) : results[j].relevance < results[k].relevance
         IN  <<results[best]>> \o
             SortByRelevance([j \in 1..(Len(results) - 1) |->
                                 IF j < best THEN results[j] ELSE results[j + 1]])

\* array.slice(0, limit)
Slice(s, limit) == SubSeq(s, 1, Min(limit, Len(s)))

WithRelevance(c, relevance) ==
    [id |-> c.id, contentId |-> c.contentId, url |-> c.url, title |-> c.title,
     chunkIndex |-> c.chunkIndex, relevance |-> relevance]

PositiveRelevance(r) == r.relevance > 0

\* if (relevance > 0) results.push(...), line 432
Scored(r) == PositiveRelevance(r)

\* textSearch(query, limit) over the chunks read.
textSearch(records, q, limit) ==
    LET all    == InKeyOrder(records)
        scored == [k \in 1..Len(all) |-> WithRelevance(all[k], ChunkRelevance(q, all[k]))]
    IN  Slice(SortByRelevance(SelectSeq(scored, Scored)), limit)

\* chunk.embedding && chunk.embedding.length === this.vectorDimensions
HasFullEmbedding(c) == c.embedding.isArray /\ c.embedding.length = vectorDimensions

\* The relevance searchContent gives vector results, in tenths.
VectorRelevance == 5

\* searchSimilar(query, limit) over the chunks read.  Every stored embedding of
\* vectorDimensions numbers is the same vector, so the similarities are equal
\* and the stable sort keeps the key order.
searchSimilar(records, q, limit) ==
    LET eligible == SelectSeq(InKeyOrder(records), HasFullEmbedding)
    IN  [k \in 1..Min(limit, Len(eligible)) |-> WithRelevance(eligible[k], VectorRelevance)]

\* The text results searchContent returns when there are any.
TextResultsUnsliced(records, q, limit) == textSearch(records, q, limit * 2)

TextResults(records, q, limit) == Slice(textSearch(records, q, limit * 2), limit)

\* generateContextualAnswer: which of the three templates the answer uses.
AnswerTemplate(question) ==
    LET questionLower == ToLowerCase(question)
    IN  IF \/ Includes(questionLower, WordWhat)
           \/ Includes(questionLower, WordHow)
           \/ Includes(questionLower, WordWhy)
        THEN "explanatory"
        ELSE IF Includes(questionLower, WordWhen) \/ Includes(questionLower, WordWhere)
             THEN "locational"
             ELSE "generic"

\* queryContent, lines 513-541: the result for the chunks retrieved.
NotEnoughInformation == [answer |-> [template |-> "notEnoughInformation"], sources |-> <<>>, totalChunks |-> 0]

\* Only the top chunk becomes a source.
QueryResultTopOnly(q, relevantChunks) ==
    IF Len(relevantChunks) = 0 THEN NotEnoughInformation
    ELSE [answer      |-> [template |-> AnswerTemplate(Queries[q]),
                           top      |-> relevantChunks[1].id],
          sources     |-> <<relevantChunks[1]>>,
          totalChunks |-> Len(relevantChunks)]

QueryResult(q, relevantChunks) ==
    IF Len(relevantChunks) = 0 THEN NotEnoughInformation
    ELSE [answer      |-> [template |-> AnswerTemplate(Queries[q]),
                           top      |-> relevantChunks[1].id],
          sources     |-> relevantChunks,
          totalChunks |-> Len(relevantChunks)]

\* ---------------------------------------------------------- chunker runs

\* Iterations a run is followed for (a run that makes no progress never ends).
MaxIterations == 20

ChunkSizes == {1, 10, 60, 100, DefaultChunkSize}

Overlaps == {0, 20, 80, 100, DefaultOverlap}

ChunkInit ==
    /\ cText \in 1..Len(ChunkTexts)
    /\ cSize \in ChunkSizes
    /\ cOverlap \in Overlaps
    /\ cStart = 0
    /\ cChunks = <<>>
    /\ cSegs = <<>>
    /\ cPc = "loop"
    /\ StoreInit
    /\ FnInit
    /\ useMockServices = TRUE
    /\ dbOpens = TRUE

\* while (start < content.length) { ... }
ChunkLoop ==
    /\ cPc = "loop"
    /\ cStart < Len(ChunkTexts[cText])
    /\ Len(cSegs) < MaxIterations
    /\ LET s == ChunkStep(ChunkTexts[cText], cSize, cOverlap, cStart)
       IN  /\ cStart' = s.start
           /\ cSegs' = Append(cSegs, s.seg)
           /\ cChunks' = IF s.emit THEN Append(cChunks, s.piece) ELSE cChunks
    /\ UNCHANGED <<cText, cSize, cOverlap, cPc>>
    /\ UNCHANGED <<storeVars, fnVars>>

\* return chunks
ChunkReturn ==
    /\ cPc = "loop"
    /\ cStart >= Len(ChunkTexts[cText])
    /\ cPc' = "done"
    /\ UNCHANGED <<cText, cSize, cOverlap, cStart, cChunks, cSegs>>
    /\ UNCHANGED <<storeVars, fnVars>>

ChunkNext == ChunkLoop \/ ChunkReturn

SpecChunk == ChunkInit /\ [][ChunkNext]_vars

\* ------------------------------------------------------------ the calls

\* Content ids generated in a run.
MaxItems == 3

\* Storage failures in a run.
MaxFaults == 1

\* Transactions of deleteContent and clearAllData awaiting their outcome.
MaxPending == 1

\* Calls made in a run.
MaxCalls == 3

\* One more call is made.
Call == calls < MaxCalls /\ calls' = calls + 1

\* queryContent calls in a run.
MaxQueries == 1

\* The limits searchContent is called with; queryContent passes 3.
SearchLimits == {0, 1, 3}

QueryLimit == 3

\* searchContent(query, limit), lines 340-371, when the store does not change
\* between its two reads.
searchContent(records, q, limit) ==
    IF Len(TextResults(records, q, limit)) > 0
    THEN TextResults(records, q, limit)
    ELSE searchSimilar(records, q, limit)

\* queryContent(question), lines 501-551, when the store does not change
\* between its reads.
queryContent(records, q) == QueryResult(q, searchContent(records, q, QueryLimit))

\* What a storeContent call that built no item leaves to report.
NoItem == [id |-> 0, chunks |-> <<>>]

\* No call is in progress and no transaction is pending.
Quiescent == sc = NoCall /\ ing = NoCall /\ rd = NoCall /\ pendingTx = <<>>

\* writeFailed: a write of the call failed in the storage layer.
StoreEvent(ok, writeFailed) ==
    [op |-> "storeContent", ok |-> ok, item |-> sc.item, writeFailed |-> writeFailed]

\* writeFailed: a write of a storeContent the call awaited failed; quiet: the
\* call was made in a quiescent state, as call number callNo.
IngestEvent(ok, writeFailed) ==
    [op |-> "ingestUrl", ok |-> ok, url |-> ing.url, item |-> sc.item,
     urlPresent |-> ing.urlPresent, writeFailed |-> writeFailed,
     quiet |-> ing.quiet, callNo |-> ing.callNo]

\* storeContent returns its item (ok) or throws, lines 265 and 269; when
\* ingestUrl awaits it, ingestUrl goes on in the same turn: it returns the item,
\* or enters its catch block (line 207), or throws from it (line 217).
\* fault: the call ends because a write failed in the storage layer.
FinishWith(ok, fault) ==
    /\ sc' = NoCall
    /\ IF sc.caller = "direct"
       THEN ing' = ing /\ ret' = <<StoreEvent(ok, fault)>>
       ELSE IF ok
            THEN /\ ing' = NoCall
                 /\ ret' = <<StoreEvent(ok, fault), IngestEvent(TRUE, ing.writeFailed)>>
            ELSE IF ing.pc = "storing"
                 THEN /\ ing' = [ing EXCEPT !.pc = "fallback", !.writeFailed = fault]
                      /\ ret' = <<StoreEvent(ok, fault)>>
                 ELSE /\ ing' = NoCall
                      /\ ret' = <<StoreEvent(ok, fault),
                                  IngestEvent(FALSE, ing.writeFailed \/ fault)>>

Finish(ok) == FinishWith(ok, FALSE)

Continue(pc, k) ==
    /\ sc' = [sc EXCEPT !.pc = pc, !.k = k]
    /\ ing' = ing
    /\ ret' = <<>>

\* What follows the k-th successful chunk write (k = 0: the content write).
AfterWrite(k) ==
    IF k < Len(sc.item.chunks) THEN Continue("putChunks", k)
    ELSE IF StoresEmbedding(sc.embedding) THEN Continue("putEmbedding", k)
         ELSE Finish(TRUE)

\* storeContent up to its first await of a write, lines 204-243.
Begin(caller, url, d, embedding) ==
    /\ dbOpens
    /\ sc.pc = "idle"
    /\ nextId <= MaxItems
    /\ sc' = [pc |-> "putContent", caller |-> caller, embedding |-> embedding,
              item |-> MakeItem(nextId, url, d, embedding), k |-> 0]
    /\ nextId' = nextId + 1

\* vectorDB.storeContent(url, title, content, embedding) called directly.
StoreContent ==
    /\ Call
    /\ \E d \in DocIds, embedding \in {EmptyEmbedding, FullEmbedding} :
            /\ Begin("direct", Docs[d].url, d, embedding)
            /\ ret' = <<>>
            /\ UNCHANGED <<dbVars, nextQueryId, pendingTx, faults, useMockServices, dbOpens,
                           ing, rd, resolvedDeletes>>
            /\ cleared' = FALSE
            /\ UNCHANGED <<chunkVars, fnVars>>

IngestCall(url, pc) ==
    [pc |-> pc, url |-> url,
     urlPresent |-> \E c \in content : c.url = url,
     writeFailed |-> FALSE, quiet |-> Quiescent, callNo |-> calls']

\* ingestUrl with useMockServices, dbOpens, lines 170-175.
IngestUrlMock ==
    /\ Call
    /\ \E d \in ExtractedDocs :
            /\ useMockServices
            /\ ing.pc = "idle"
            /\ Begin("ingest", Docs[d].url, d, EmptyEmbedding)
            /\ ing' = IngestCall(Docs[d].url, "storing")
            /\ ret' = <<>>
            /\ UNCHANGED <<dbVars, nextQueryId, pendingTx, faults, useMockServices, dbOpens,
                           rd, resolvedDeletes>>
            /\ cleared' = FALSE
            /\ UNCHANGED <<chunkVars, fnVars>>

\* The failure of the provider is thrown to ingestUrl's caller.
IngestUrlProviderAborts ==
    /\ Call
    /\ dbOpens
    /\ \E url \in {Docs[d].url : d \in ExtractedDocs} :
            /\ ~useMockServices
            /\ ing.pc = "idle"
            /\ ret' = <<[op |-> "ingestUrl", ok |-> FALSE, url |-> url, item |-> NoItem,
                         urlPresent |-> \E c \in content : c.url = url,
                         writeFailed |-> FALSE, quiet |-> Quiescent, callNo |-> calls']>>
            /\ UNCHANGED <<dbVars, nextId, nextQueryId, pendingTx, faults, useMockServices, dbOpens,
                           sc, ing, rd, resolvedDeletes>>
            /\ cleared' = FALSE
            /\ UNCHANGED <<chunkVars, fnVars>>

\* ingestUrl with an API key, lines 186-209: OpenAIService (openai.ts) has no
\* extractContentFromUrl, the call at line 191 throws and the catch block is
\* entered.
IngestUrlProvider ==
    /\ Call
    /\ dbOpens
    /\ \E url \in {Docs[d].url : d \in ExtractedDocs} :
            /\ ~useMockServices
            /\ ing.pc = "idle"
            /\ ing' = IngestCall(url, "fallback")
            /\ ret' = <<>>
            /\ UNCHANGED <<dbVars, nextId, nextQueryId, pendingTx, faults, useMockServices, dbOpens,
                           sc, rd, resolvedDeletes>>
            /\ cleared' = FALSE
            /\ UNCHANGED <<chunkVars, fnVars>>

\* The catch block of ingestUrl, lines 212-214: the fetch of
\* MockLLMService.extractContentFromUrl, awaited since the catch block was
\* entered, returns and storeContent begins.
IngestFallback ==
    /\ ing.pc = "fallback"
    /\ Begin("ingest", ing.url, DocAt(ing.url), EmptyEmbedding)
    /\ ing' = [ing EXCEPT !.pc = "storingFallback"]
    /\ ret' = <<>>
    /\ UNCHANGED <<dbVars, nextQueryId, pendingTx, faults, useMockServices, dbOpens,
                   rd, resolvedDeletes>>
    /\ UNCHANGED <<calls, chunkVars, fnVars, cleared>>

\* await this.storeInTransaction(db, 'content', contentItem), line 246.
PutContentOk ==
    /\ sc.pc = "putContent"
    /\ ~Blocked("content")
    /\ UrlUnique(sc.item)
    /\ content' = Put(content, sc.item)
    /\ AfterWrite(0)
    /\ UNCHANGED <<chunks, embeddings, queries, nextId, nextQueryId, pendingTx, faults,
                   useMockServices, dbOpens, rd, resolvedDeletes>>
    /\ UNCHANGED <<calls, chunkVars, fnVars, cleared>>

\* The put breaks the unique index 'url': request.onerror rejects, line 625.
PutContentConstraint ==
    /\ sc.pc = "putContent"
    /\ ~Blocked("content")
    /\ ~UrlUnique(sc.item)
    /\ Finish(FALSE)
    /\ UNCHANGED <<dbVars, nextId, nextQueryId, pendingTx, faults, useMockServices, dbOpens,
                   rd, resolvedDeletes>>
    /\ UNCHANGED <<calls, chunkVars, fnVars, cleared>>

\* await this.storeInTransaction(db, 'chunks', chunk), line 250.
PutChunkOk ==
    /\ sc.pc = "putChunks"
    /\ ~Blocked("chunks")
    /\ chunks' = Put(chunks, sc.item.chunks[sc.k + 1])
    /\ AfterWrite(sc.k + 1)
    /\ UNCHANGED <<content, embeddings, queries, nextId, nextQueryId, pendingTx, faults,
                   useMockServices, dbOpens, rd, resolvedDeletes>>
    /\ UNCHANGED <<calls, chunkVars, fnVars, cleared>>

\* await this.storeInTransaction(db, 'embeddings', {...}), lines 255-261.
PutEmbeddingOk ==
    /\ sc.pc = "putEmbedding"
    /\ ~Blocked("embeddings")
    /\ embeddings' = Put(embeddings,
                         [id |-> sc.item.id, contentId |-> sc.item.id,
                          embedding |-> sc.embedding, url |-> sc.item.url,
                          title |-> sc.item.title])
    /\ Finish(TRUE)
    /\ UNCHANGED <<content, chunks, queries, nextId, nextQueryId, pendingTx, faults,
                   useMockServices, dbOpens, rd, resolvedDeletes>>
    /\ UNCHANGED <<calls, chunkVars, fnVars, cleared>>

StoreOf(pc) ==
    IF pc = "putContent" THEN "content"
    ELSE IF pc = "putChunks" THEN "chunks" ELSE "embeddings"

\* A write of storeContent fails in the storage layer (the request errors or
\* its transaction aborts): storeInTransaction rejects, nothing is written.
WriteFault ==
    /\ sc.pc \in {"putContent", "putChunks", "putEmbedding"}
    /\ ~Blocked(StoreOf(sc.pc))
    /\ faults < MaxFaults
    /\ faults' = faults + 1
    /\ FinishWith(FALSE, TRUE)
    /\ UNCHANGED <<dbVars, nextId, nextQueryId, pendingTx, useMockServices, dbOpens,
                   rd, resolvedDeletes>>
    /\ UNCHANGED <<calls, chunkVars, fnVars, cleared>>

\* An id no storeContent call generates.
UnknownId == 0

\* deleteContent throws for an id the content store does not hold.
DeleteContentRejectsUnknown ==
    /\ Call
    /\ dbOpens
    /\ \E id \in {UnknownId} \cup 1..(nextId - 1) :
            /\ Len(pendingTx) < MaxPending
            /\ IF \E c \in content : c.id = id
               THEN /\ pendingTx' = Append(pendingTx, [kind |-> "delete", id |-> id])
                    /\ resolvedDeletes' = resolvedDeletes \cup {id}
                    /\ ret' = <<[op |-> "deleteContent", ok |-> TRUE, id |-> id]>>
               ELSE /\ ret' = <<[op |-> "deleteContent", ok |-> FALSE, id |-> id]>>
                    /\ UNCHANGED <<pendingTx, resolvedDeletes>>
            /\ UNCHANGED <<dbVars, nextId, nextQueryId, faults, useMockServices, dbOpens, sc, ing, rd>>
            /\ UNCHANGED <<chunkVars, fnVars, cleared>>

\* deleteContent(id), lines 711-747: the transaction is created, its requests
\* are queued, and the call returns without awaiting them.  The id is one a
\* storeContent call has generated, or one that none has.
DeleteContent ==
    /\ Call
    /\ dbOpens
    /\ \E id \in {UnknownId} \cup 1..(nextId - 1) :
            /\ Len(pendingTx) < MaxPending
            /\ pendingTx' = Append(pendingTx, [kind |-> "delete", id |-> id])
            /\ resolvedDeletes' = resolvedDeletes \cup {id}
            /\ ret' = <<[op |-> "deleteContent", ok |-> TRUE, id |-> id]>>
            /\ UNCHANGED <<dbVars, nextId, nextQueryId, faults, useMockServices, dbOpens, sc, ing, rd>>
            /\ UNCHANGED <<chunkVars, fnVars, cleared>>

\* clearAllData(), lines 848-864: as deleteContent, on all four stores.
ClearAllData ==
    /\ Call
    /\ dbOpens
    /\ Len(pendingTx) < MaxPending
    /\ pendingTx' = Append(pendingTx, [kind |-> "clear", id |-> 0])
    /\ ret' = <<[op |-> "clearAllData", ok |-> TRUE]>>
    /\ UNCHANGED <<dbVars, nextId, nextQueryId, faults, useMockServices, dbOpens, sc, ing, rd,
                   resolvedDeletes>>
    /\ cleared' = TRUE
    /\ UNCHANGED <<chunkVars, fnVars>>

\* contentStore.delete(id), line 722.
DeleteById(records, id) == {r \in records : r.id # id}

\* Every record the 'contentId' index has is deleted.
DeleteEveryRecord(records, id) == {}

\* index('contentId').getAll(id), then a delete of each record found, lines
\* 725-740.
DeleteByContentId(records, id) == {r \in records : r.contentId # id}

\* The oldest pending transaction runs its requests and commits.
TxCommit ==
    /\ pendingTx # <<>>
    /\ LET tx == Head(pendingTx)
       IN  IF tx.kind = "delete"
           THEN /\ content' = DeleteById(content, tx.id)
                /\ chunks' = DeleteByContentId(chunks, tx.id)
                /\ embeddings' = DeleteByContentId(embeddings, tx.id)
                /\ queries' = queries
           ELSE /\ content' = {}
                /\ chunks' = {}
                /\ embeddings' = {}
                /\ queries' = {}
    /\ pendingTx' = Tail(pendingTx)
    /\ ret' = <<>>
    /\ UNCHANGED <<nextId, nextQueryId, faults, useMockServices, dbOpens, sc, ing, rd,
                   resolvedDeletes>>
    /\ UNCHANGED <<calls, chunkVars, fnVars, cleared>>

\* The oldest pending transaction aborts in the storage layer: nothing of it
\* is applied, and nobody is told (no handler is set on it).
TxAbort ==
    /\ pendingTx # <<>>
    /\ faults < MaxFaults
    /\ faults' = faults + 1
    /\ pendingTx' = Tail(pendingTx)
    /\ ret' = <<>>
    /\ UNCHANGED <<dbVars, nextId, nextQueryId, useMockServices, dbOpens, sc, ing, rd,
                   resolvedDeletes>>
    /\ UNCHANGED <<calls, chunkVars, fnVars, cleared>>

\* storeContent when the database does not open: ensureDatabase throws at line
\* 204 and the catch block rethrows, line 269.
StoreContentNoDatabase ==
    /\ Call
    /\ ~dbOpens
    /\ ret' = <<[op |-> "storeContent", ok |-> FALSE, item |-> NoItem,
                 writeFailed |-> FALSE]>>
    /\ UNCHANGED <<dbVars, nextId, nextQueryId, pendingTx, faults, useMockServices,
                   dbOpens, sc, ing, rd, resolvedDeletes>>
    /\ UNCHANGED <<chunkVars, fnVars, cleared>>

\* ingestUrl when the database does not open: storeContent throws on the first
\* path taken (with an API key, extractContentFromUrl does before it), the
\* catch block's storeContent throws too, and ingestUrl throws, line 217.
IngestUrlNoDatabase ==
    /\ Call
    /\ ~dbOpens
    /\ \E d \in ExtractedDocs :
            /\ ret' = <<[op |-> "storeContent", ok |-> FALSE, item |-> NoItem,
                 writeFailed |-> FALSE],
                        [op |-> "ingestUrl", ok |-> FALSE, url |-> Docs[d].url,
                         item |-> NoItem, urlPresent |-> FALSE, writeFailed |-> FALSE,
                         quiet |-> Quiescent, callNo |-> calls']>>
            /\ UNCHANGED <<dbVars, nextId, nextQueryId, pendingTx, faults, useMockServices,
                           dbOpens, sc, ing, rd, resolvedDeletes>>
            /\ UNCHANGED <<chunkVars, fnVars, cleared>>

\* deleteContent(id) when the database does not open: ensureDatabase throws
\* and the catch block rethrows, lines 743-746.
DeleteContentNoDatabase ==
    /\ Call
    /\ ~dbOpens
    /\ ret' = <<[op |-> "deleteContent", ok |-> FALSE, id |-> 1]>>
    /\ UNCHANGED <<dbVars, nextId, nextQueryId, pendingTx, faults, useMockServices,
                   dbOpens, sc, ing, rd, resolvedDeletes>>
    /\ UNCHANGED <<chunkVars, fnVars, cleared>>

\* clearAllData() when the database does not open, lines 860-863.
ClearAllDataNoDatabase ==
    /\ Call
    /\ ~dbOpens
    /\ ret' = <<[op |-> "clearAllData", ok |-> FALSE]>>
    /\ UNCHANGED <<dbVars, nextId, nextQueryId, pendingTx, faults, useMockServices,
                   dbOpens, sc, ing, rd, resolvedDeletes>>
    /\ UNCHANGED <<chunkVars, fnVars, cleared>>

\* Some chunk read would pass textSearch's filter, line 432.
HasLexicalMatch(records, q) == \E c \in records : ChunkRelevance(q, c) > 0

\* failed: the reads of the call that failed ("text", "vector"); lexical: some
\* stored chunk had a positive text relevance when the call's text search ran.
SearchEvent(q, limit, results, path, deleted, failed, lexical) ==
    [op |-> "searchContent", query |-> q, limit |-> limit, results |-> results,
     path |-> path, deleted |-> deleted, failed |-> failed, lexical |-> lexical,
     cleared |-> cleared]

\* retrieved: the chunks searchContent gave the call (relevantChunks, line 506).
QueryEvent(q, result, deleted, retrieved) ==
    [op |-> "queryContent", query |-> q, result |-> result, deleted |-> deleted,
     retrieved |-> retrieved]

\* searchContent(query, limit), lines 343-349: the text search finds chunks.
SearchTextHit ==
    /\ Call
    /\ dbOpens
    /\ \E q \in SearchQueries, limit \in SearchLimits :
            /\ rd.pc = "idle"
            /\ ~Blocked("chunks")
            /\ Len(TextResults(chunks, q, limit)) > 0
            /\ ret' = <<SearchEvent(q, limit, TextResults(chunks, q, limit), "text",
                                    resolvedDeletes, {}, HasLexicalMatch(chunks, q))>>
            /\ UNCHANGED <<dbVars, nextId, nextQueryId, pendingTx, faults, useMockServices, dbOpens,
                           sc, ing, rd, resolvedDeletes>>
            /\ UNCHANGED <<chunkVars, fnVars, cleared>>

\* searchContent(query, limit), lines 343-353: the text search finds nothing.
SearchTextMiss ==
    /\ Call
    /\ dbOpens
    /\ \E q \in SearchQueries, limit \in SearchLimits :
            /\ rd.pc = "idle"
            /\ ~Blocked("chunks")
            /\ Len(TextResults(chunks, q, limit)) = 0
            /\ rd' = [pc |-> "vector", op |-> "searchContent", query |-> q, limit |-> limit,
                      deleted |-> resolvedDeletes, failed |-> {},
                      lexical |-> HasLexicalMatch(chunks, q)]
            /\ ret' = <<>>
            /\ UNCHANGED <<dbVars, nextId, nextQueryId, pendingTx, faults, useMockServices, dbOpens,
                           sc, ing, resolvedDeletes>>
            /\ UNCHANGED <<chunkVars, fnVars, cleared>>

\* queryContent(question), lines 506-532: the text search finds chunks.
QueryTextHit ==
    /\ Call
    /\ dbOpens
    /\ \E q \in Questions :
            /\ rd.pc = "idle"
            /\ nextQueryId <= MaxQueries
            /\ ~Blocked("chunks")
            /\ Len(TextResults(chunks, q, QueryLimit)) > 0
            /\ rd' = [pc |-> "history", op |-> "queryContent", query |-> q,
                      result |-> QueryResult(q, TextResults(chunks, q, QueryLimit)),
                      deleted |-> resolvedDeletes,
                      retrieved |-> TextResults(chunks, q, QueryLimit)]
            /\ ret' = <<>>
            /\ UNCHANGED <<dbVars, nextId, nextQueryId, pendingTx, faults, useMockServices, dbOpens,
                           sc, ing, resolvedDeletes>>
            /\ cleared' = FALSE
            /\ UNCHANGED <<chunkVars, fnVars>>

\* queryContent(question): the text search finds nothing.
QueryTextMiss ==
    /\ Call
    /\ dbOpens
    /\ \E q \in Questions :
            /\ rd.pc = "idle"
            /\ nextQueryId <= MaxQueries
            /\ ~Blocked("chunks")
            /\ Len(TextResults(chunks, q, QueryLimit)) = 0
            /\ rd' = [pc |-> "vector", op |-> "queryContent", query |-> q, limit |-> QueryLimit,
                      deleted |-> resolvedDeletes, failed |-> {}]
            /\ ret' = <<>>
            /\ UNCHANGED <<dbVars, nextId, nextQueryId, pendingTx, faults, useMockServices, dbOpens,
                           sc, ing, resolvedDeletes>>
            /\ cleared' = FALSE
            /\ UNCHANGED <<chunkVars, fnVars>>

\* searchSimilar of searchContent, lines 353-359, for searchContent's caller.
SearchVector ==
    /\ rd.pc = "vector"
    /\ rd.op = "searchContent"
    /\ ~Blocked("chunks")
    /\ ret' = <<SearchEvent(rd.query, rd.limit, searchSimilar(chunks, rd.query, rd.limit),
                            "vector", rd.deleted, rd.failed, rd.lexical)>>
    /\ rd' = NoCall
    /\ UNCHANGED <<dbVars, nextId, nextQueryId, pendingTx, faults, useMockServices, dbOpens,
                   sc, ing, resolvedDeletes>>
    /\ UNCHANGED <<calls, chunkVars, fnVars, cleared>>

\* searchSimilar of searchContent for queryContent: with no chunk the fixed
\* answer is returned (lines 513-520), else the answer is built.
QueryVector ==
    /\ rd.pc = "vector"
    /\ rd.op = "queryContent"
    /\ ~Blocked("chunks")
    /\ LET found == searchSimilar(chunks, rd.query, rd.limit)
       IN  IF Len(found) = 0
           THEN /\ ret' = <<QueryEvent(rd.query, QueryResult(rd.query, <<>>), rd.deleted, <<>>)>>
                /\ rd' = NoCall
           ELSE /\ ret' = <<>>
                /\ rd' = [pc |-> "history", op |-> "queryContent", query |-> rd.query,
                          result |-> QueryResult(rd.query, found), deleted |-> rd.deleted,
                          retrieved |-> found]
    /\ UNCHANGED <<dbVars, nextId, nextQueryId, pendingTx, faults, useMockServices, dbOpens,
                   sc, ing, resolvedDeletes>>
    /\ UNCHANGED <<calls, chunkVars, fnVars, cleared>>

\* textSearch's read of the chunks fails: textSearch logs it and returns [],
\* lines 443-446, and searchContent falls back to searchSimilar.
SearchTextFault ==
    /\ Call
    /\ dbOpens
    /\ faults < MaxFaults
    /\ \E q \in SearchQueries, limit \in SearchLimits :
            /\ rd.pc = "idle"
            /\ ~Blocked("chunks")
            /\ rd' = [pc |-> "vector", op |-> "searchContent", query |-> q, limit |-> limit,
                      deleted |-> resolvedDeletes, failed |-> {"text"},
                      lexical |-> HasLexicalMatch(chunks, q)]
            /\ faults' = faults + 1
            /\ ret' = <<>>
            /\ UNCHANGED <<dbVars, nextId, nextQueryId, pendingTx, useMockServices, dbOpens,
                           sc, ing, resolvedDeletes>>
            /\ UNCHANGED <<chunkVars, fnVars, cleared>>

\* The same in a queryContent call.
QueryTextFault ==
    /\ Call
    /\ dbOpens
    /\ faults < MaxFaults
    /\ \E q \in Questions :
            /\ rd.pc = "idle"
            /\ nextQueryId <= MaxQueries
            /\ ~Blocked("chunks")
            /\ rd' = [pc |-> "vector", op |-> "queryContent", query |-> q, limit |-> QueryLimit,
                      deleted |-> resolvedDeletes, failed |-> {"text"}]
            /\ faults' = faults + 1
            /\ ret' = <<>>
            /\ UNCHANGED <<dbVars, nextId, nextQueryId, pendingTx, useMockServices, dbOpens,
                           sc, ing, resolvedDeletes>>
            /\ cleared' = FALSE
            /\ UNCHANGED <<chunkVars, fnVars>>

\* searchSimilar's read of the chunks fails: searchSimilar logs it and returns
\* [], lines 314-317; searchContent returns the empty list and queryContent the
\* fixed answer.
VectorFault ==
    /\ rd.pc = "vector"
    /\ ~Blocked("chunks")
    /\ faults < MaxFaults
    /\ faults' = faults + 1
    /\ ret' = IF rd.op = "searchContent"
              THEN <<SearchEvent(rd.query, rd.limit, <<>>, "vector", rd.deleted,
                                 rd.failed \cup {"vector"}, rd.lexical)>>
              ELSE <<QueryEvent(rd.query, QueryResult(rd.query, <<>>), rd.deleted, <<>>)>>
    /\ rd' = NoCall
    /\ UNCHANGED <<dbVars, nextId, nextQueryId, pendingTx, useMockServices, dbOpens,
                   sc, ing, resolvedDeletes>>
    /\ UNCHANGED <<calls, chunkVars, fnVars, cleared>>

\* searchContent(query, limit) when the database does not open: ensureDatabase
\* throws in textSearch and in searchSimilar, both return [].
SearchNoDatabase ==
    /\ Call
    /\ ~dbOpens
    /\ \E q \in SearchQueries, limit \in SearchLimits :
            /\ ret' = <<SearchEvent(q, limit, <<>>, "vector", resolvedDeletes,
                                    {"text", "vector"}, HasLexicalMatch(chunks, q))>>
            /\ UNCHANGED <<dbVars, nextId, nextQueryId, pendingTx, faults, useMockServices,
                           dbOpens, sc, ing, rd, resolvedDeletes>>
            /\ UNCHANGED <<chunkVars, fnVars, cleared>>

\* queryContent(question) when the database does not open.
QueryNoDatabase ==
    /\ Call
    /\ ~dbOpens
    /\ \E q \in Questions :
            /\ ret' = <<QueryEvent(q, QueryResult(q, <<>>), resolvedDeletes, <<>>)>>
            /\ UNCHANGED <<dbVars, nextId, nextQueryId, pendingTx, faults, useMockServices,
                           dbOpens, sc, ing, rd, resolvedDeletes>>
            /\ UNCHANGED <<chunkVars, fnVars, cleared>>

\* storeQueryHistory, lines 681-697, then queryContent returns, line 537.
StoreHistoryOk ==
    /\ rd.pc = "history"
    /\ ~Blocked("queries")
    /\ queries' = Put(queries,
                      [id |-> nextQueryId, question |-> rd.query,
                       answer |-> rd.result.answer,
                       sources |-> [k \in 1..Len(rd.result.sources) |->
                                       rd.result.sources[k].url],
                       queryEmbedding |-> generateMockEmbedding(Queries[rd.query])])
    /\ nextQueryId' = nextQueryId + 1
    /\ ret' = <<QueryEvent(rd.query, rd.result, rd.deleted, rd.retrieved)>>
    /\ rd' = NoCall
    /\ UNCHANGED <<content, chunks, embeddings, nextId, pendingTx, faults, useMockServices, dbOpens,
                   sc, ing, resolvedDeletes>>
    /\ UNCHANGED <<calls, chunkVars, fnVars, cleared>>

\* The failure of the write replaces the answer by the fixed one.
StoreHistoryFaultChangesAnswer ==
    /\ rd.pc = "history"
    /\ ~Blocked("queries")
    /\ faults < MaxFaults
    /\ faults' = faults + 1
    /\ nextQueryId' = nextQueryId + 1
    /\ ret' = <<QueryEvent(rd.query, NotEnoughInformation, rd.deleted, rd.retrieved)>>
    /\ rd' = NoCall
    /\ UNCHANGED <<dbVars, nextId, pendingTx, useMockServices, dbOpens, sc, ing, resolvedDeletes>>
    /\ UNCHANGED <<calls, chunkVars, fnVars, cleared>>

\* The write of the QueryRecord fails: storeQueryHistory logs it, line 695.
StoreHistoryFault ==
    /\ rd.pc = "history"
    /\ ~Blocked("queries")
    /\ faults < MaxFaults
    /\ faults' = faults + 1
    /\ nextQueryId' = nextQueryId + 1
    /\ ret' = <<QueryEvent(rd.query, rd.result, rd.deleted, rd.retrieved)>>
    /\ rd' = NoCall
    /\ UNCHANGED <<dbVars, nextId, pendingTx, useMockServices, dbOpens, sc, ing, resolvedDeletes>>
    /\ UNCHANGED <<calls, chunkVars, fnVars, cleared>>

\* What getStats returns, without databaseSize; failed: a read of the call
\* failed; quiet: the call was made in a quiescent state, as call number callNo.
StatsEvent(totalContent, totalChunks, totalQueries, failed, quiet, callNo) ==
    [op |-> "getStats", totalContent |-> totalContent, totalChunks |-> totalChunks,
     totalQueries |-> totalQueries, vectorDimensions |-> vectorDimensions,
     failed |-> failed, quiet |-> quiet, callNo |-> callNo, cleared |-> cleared]

\* getStats(), lines 764-768: the content store is read.
GetStats ==
    /\ Call
    /\ dbOpens
    /\ rd.pc = "idle"
    /\ ~Blocked("content")
    /\ rd' = [pc |-> "statsChunks", op |-> "getStats", totalContent |-> Cardinality(content),
              quiet |-> Quiescent, callNo |-> calls']
    /\ ret' = <<>>
    /\ UNCHANGED <<dbVars, nextId, nextQueryId, pendingTx, faults, useMockServices, dbOpens,
                   sc, ing, resolvedDeletes>>
    /\ UNCHANGED <<chunkVars, fnVars, cleared>>

\* getStats(), line 769: the chunks store is read.
StatsChunks ==
    /\ rd.pc = "statsChunks"
    /\ ~Blocked("chunks")
    /\ rd' = [pc |-> "statsQueries", op |-> "getStats", totalContent |-> rd.totalContent,
              totalChunks |-> Cardinality(chunks), quiet |-> rd.quiet, callNo |-> rd.callNo]
    /\ ret' = <<>>
    /\ UNCHANGED <<dbVars, nextId, nextQueryId, pendingTx, faults, useMockServices, dbOpens,
                   sc, ing, resolvedDeletes>>
    /\ UNCHANGED <<calls, chunkVars, fnVars, cleared>>

\* getStats(), lines 770-778: the queries store is read and the counts are
\* returned.
StatsQueries ==
    /\ rd.pc = "statsQueries"
    /\ ~Blocked("queries")
    /\ ret' = <<StatsEvent(rd.totalContent, rd.totalChunks, Cardinality(queries), FALSE,
                          rd.quiet, rd.callNo)>>
    /\ rd' = NoCall
    /\ UNCHANGED <<dbVars, nextId, nextQueryId, pendingTx, faults, useMockServices, dbOpens,
                   sc, ing, resolvedDeletes>>
    /\ UNCHANGED <<calls, chunkVars, fnVars, cleared>>

\* A read of getStats fails: the catch block returns zero counts, lines
\* 779-788.  (A failure of the first read has the same outcome.)
StatsFault ==
    /\ rd.pc \in {"statsChunks", "statsQueries"}
    /\ faults < MaxFaults
    /\ faults' = faults + 1
    /\ ret' = <<StatsEvent(0, 0, 0, TRUE, rd.quiet, rd.callNo)>>
    /\ rd' = NoCall
    /\ UNCHANGED <<dbVars, nextId, nextQueryId, pendingTx, useMockServices, dbOpens,
                   sc, ing, resolvedDeletes>>
    /\ UNCHANGED <<calls, chunkVars, fnVars, cleared>>

\* getStats() when the database does not open: ensureDatabase throws at line
\* 766 and the catch block returns zero counts.
GetStatsNoDatabase ==
    /\ Call
    /\ ~dbOpens
    /\ ret' = <<StatsEvent(0, 0, 0, TRUE, Quiescent, calls')>>
    /\ UNCHANGED <<dbVars, nextId, nextQueryId, pendingTx, faults, useMockServices,
                   dbOpens, sc, ing, rd, resolvedDeletes>>
    /\ UNCHANGED <<chunkVars, fnVars, cleared>>

\* The object stores onupgradeneeded creates, lines 120-141, and those
\* checkHealth expects, line 911.
ObjectStoreNames == {"content", "chunks", "queries", "embeddings"}

ExpectedStores == {"content", "chunks", "queries", "embeddings"}

\* this.db.readyState, line 889: an IDBDatabase has no readyState property, the
\* read gives undefined.
DbReadyState == "undefined"

\* checkHealth(), lines 878-927.  db: this.db is set; readOk: the getAll on
\* the content store succeeds.
checkHealth(db, readOk) ==
    IF ~db
    THEN [healthy |-> FALSE, issues |-> <<"Database not initialized">>]
    ELSE IF DbReadyState # "open"
         THEN [healthy |-> FALSE, issues |-> <<"Database not ready">>]
         ELSE LET failedTest == IF readOk THEN <<>>
                                ELSE <<"Database operations test failed">>
                  missing == [k \in 1..Cardinality(ExpectedStores \ ObjectStoreNames) |->
                                 "Missing object store"]
                  issues == failedTest \o missing
              IN  [healthy |-> Len(issues) = 0, issues |-> issues]

\* checkHealth() returns; handleOpen and readOk tell what the storage was like.
CheckHealth ==
    /\ Call
    /\ \E readOk \in BOOLEAN :
            /\ ret' = <<[op |-> "checkHealth", result |-> checkHealth(dbOpens, readOk),
                         handleOpen |-> dbOpens, readOk |-> readOk]>>
            /\ UNCHANGED <<dbVars, nextId, nextQueryId, pendingTx, faults, useMockServices,
                           dbOpens, sc, ing, rd, resolvedDeletes>>
            /\ UNCHANGED <<chunkVars, fnVars, cleared>>

\* ------------------------------------------- the private functions alone

\* One round of the reduce of generateMockEmbedding, line 277:
\* ((a << 5) - a + b.charCodeAt(0)) & 0xffffffff, that is 31 * a + code in 32
\* bits.  The accumulator is kept as two halves of 16 bits.
HashStep(a, code) ==
    LET low == a.lo * 31 + code
    IN  [hi |-> (a.hi * 31 + low \div 65536) % 65536, lo |-> low % 65536]

\* The accumulator after the first n code units, from the initial value a.
RECURSIVE HashFrom(_, _, _)
HashFrom(a, text, n) ==
    IF n = 0 THEN a ELSE HashStep(HashFrom(a, text, n - 1), text[n])

\* The accumulator as the signed 32-bit number & leaves.
ToInt32(a) == (IF a.hi >= 32768 THEN a.hi - 65536 ELSE a.hi) * 65536 + a.lo

\* A hash that carries on from the calls made before.
MockHashOfCalls(text) == ToInt32(HashFrom([hi |-> 0, lo |-> Len(eLog)], text, Len(text)))

\* content.split('').reduce(..., 0), lines 276-279.
MockHash(text) == ToInt32(HashFrom([hi |-> 0, lo |-> 0], text, Len(text)))

\* The numbers generateMockEmbedding pushes, lines 281-285: component i of
\* length components is Math.sin(hash + i) * 0.1.
MockComponents(text) ==
    [length |-> generateMockEmbedding(text).length, hash |-> MockHash(text)]

\* The texts generateMockEmbedding is given.
EmbedTexts == <<QueryEmpty, QueryReact, QueryWhatIsReact, QueryAI, QueryWordContent>>

\* What generateMockEmbedding returns for each of the texts.
EmbedResults == [t \in 1..Len(EmbedTexts) |-> MockComponents(EmbedTexts[t])]

\* Calls of generateMockEmbedding in a run.
MaxEmbedCalls == 3

EmbedInit ==
    /\ StoreInit
    /\ FnInit
    /\ useMockServices \in BOOLEAN
    /\ dbOpens \in BOOLEAN
    /\ cText = 1
    /\ cSize = DefaultChunkSize
    /\ cOverlap = DefaultOverlap
    /\ cStart = 0
    /\ cChunks = <<>>
    /\ cSegs = <<>>
    /\ cPc = "off"

\* generateMockEmbedding(content) is called and returns.
GenerateMockEmbedding ==
    /\ Len(eLog) < MaxEmbedCalls
    /\ \E t \in 1..Len(EmbedTexts) :
            eLog' = Append(eLog, [text |-> t, embedding |-> EmbedResults[t]])
    /\ UNCHANGED <<vecA, vecB, similarity, cosPc>>
    /\ UNCHANGED <<chunkVars, storeVars>>

SpecEmbed == EmbedInit /\ [][GenerateMockEmbedding]_vars

\* A number cosineSimilarity returns is kept as the three sums it is made of:
\* [dot, normA, normB] is dot / (Math.sqrt(normA) * Math.sqrt(normB)), which
\* is NaN or an infinity when normA or normB is 0.  The literal 0 of lines 322
\* and 334 is 0 / (sqrt(1) * sqrt(1)).
Zero == [dot |-> 0, normA |-> 1, normB |-> 1]

\* The sums of the loop of lines 328-332 after n rounds.
RECURSIVE CosineSums(_, _, _)
CosineSums(a, b, n) ==
    IF n = 0 THEN [dot |-> 0, normA |-> 0, normB |-> 0]
    ELSE LET s == CosineSums(a, b, n - 1)
         IN  [dot   |-> s.dot + a[n] * b[n],
              normA |-> s.normA + a[n] * a[n],
              normB |-> s.normB + b[n] * b[n]]

\* The division is made whatever the norms are.
cosineSimilarityUnguarded(a, b) ==
    IF Len(a) # Len(b) THEN Zero ELSE CosineSums(a, b, Len(a))

\* cosineSimilarity(vecA, vecB), lines 321-337.
cosineSimilarity(a, b) ==
    IF Len(a) # Len(b) THEN Zero
    ELSE LET s == CosineSums(a, b, Len(a))
         IN  IF s.normA = 0 \/ s.normB = 0 THEN Zero ELSE s

\* Components of the vectors given to cosineSimilarity.
Components == {-1, 0, 2}

\* Longest vector given to cosineSimilarity.
MaxVecLen == 2

Vectors == UNION {[1..n -> Components] : n \in 0..MaxVecLen}

CosineInit ==
    /\ StoreInit
    /\ eLog = <<>>
    /\ vecA \in Vectors
    /\ vecB \in Vectors
    /\ similarity = Zero
    /\ cosPc = "call"
    /\ useMockServices = TRUE
    /\ dbOpens = TRUE
    /\ cText = 1
    /\ cSize = DefaultChunkSize
    /\ cOverlap = DefaultOverlap
    /\ cStart = 0
    /\ cChunks = <<>>
    /\ cSegs = <<>>
    /\ cPc = "off"

\* cosineSimilarity(vecA, vecB) is called and returns.
CosineSimilarity ==
    /\ cosPc = "call"
    /\ similarity' = cosineSimilarity(vecA, vecB)
    /\ cosPc' = "done"
    /\ UNCHANGED <<eLog, vecA, vecB>>
    /\ UNCHANGED <<chunkVars, storeVars>>

SpecCosine == CosineInit /\ [][CosineSimilarity]_vars

Init ==
    /\ StoreInit
    /\ FnInit
    /\ useMockServices \in BOOLEAN
    /\ dbOpens \in BOOLEAN
    /\ cText = 1
    /\ cSize = DefaultChunkSize
    /\ cOverlap = DefaultOverlap
    /\ cStart = 0
    /\ cChunks = <<>>
    /\ cSegs = <<>>
    /\ cPc = "off"

Next ==
    \/ StoreContent
    \/ IngestUrlMock
    \/ IngestUrlProvider
    \/ IngestFallback
    \/ PutContentOk
    \/ PutContentConstraint
    \/ PutChunkOk
    \/ PutEmbeddingOk
    \/ WriteFault
    \/ DeleteContent
    \/ ClearAllData
    \/ TxCommit
    \/ TxAbort
    \/ SearchTextHit
    \/ SearchTextMiss
    \/ QueryTextHit
    \/ QueryTextMiss
    \/ SearchVector
    \/ QueryVector
    \/ StoreContentNoDatabase
    \/ IngestUrlNoDatabase
    \/ DeleteContentNoDatabase
    \/ ClearAllDataNoDatabase
    \/ SearchTextFault
    \/ QueryTextFault
    \/ VectorFault
    \/ GetStats
    \/ StatsChunks
    \/ StatsQueries
    \/ StatsFault
    \/ GetStatsNoDatabase
    \/ CheckHealth
    \/ SearchNoDatabase
    \/ QueryNoDatabase
    \/ StoreHistoryOk
    \/ StoreHistoryFault

Spec == Init /\ [][Next]_vars

\* The steps the storage engine and the event loop take by themselves: request
\* callbacks, transaction completion and the continuations awaiting them.  The
\* answer of the network to the fetch awaited by ingestUrl (IngestFallback) is
\* not among them: nothing in the code bounds the wait.
StorageStep ==
    \/ PutContentOk
    \/ PutContentConstraint
    \/ PutChunkOk
    \/ PutEmbeddingOk
    \/ TxCommit
    \/ StatsChunks
    \/ StatsQueries
    \/ StoreHistoryOk

LiveSpec == Init /\ [][Next]_vars /\ WF_vars(StorageStep)

\* ================================================================ claims

cTextValue == ChunkTexts[cText]

\* C7: chunkContent terminates for every text and every pair (targetSize >= 1,
\* overlap >= 0): every iteration of its loop strictly increases start.
C7_EveryIterationAdvances == [][cSegs' # cSegs => cStart' > cStart]_vars

\* A non-whitespace position of the text lies in the range of an emitted chunk.
Covered(i) == \E k \in 1..Len(cChunks) : cChunks[k].lo <= i /\ i < cChunks[k].hi

\* C8: for overlap < size the chunks chunkContent returns cover the text: every
\* non-whitespace position lies inside the source range of an emitted chunk.
C8_ChunksCoverText ==
    (cPc = "done" /\ cOverlap < cSize) =>
        \A i \in 0..(Len(cTextValue) - 1) :
            ~IsWhitespace(cTextValue[i + 1]) => Covered(i)

IsTrimmed(s) == s = <<>> \/ (~IsWhitespace(s[1]) /\ ~IsWhitespace(s[Len(s)]))

\* C9: every string chunkContent has emitted is trimmed and longer than 50; a
\* segment whose trimmed length is 50 or less is not emitted.
C9_EmittedTrimmedAndLong ==
    /\ \A k \in 1..Len(cChunks) :
          /\ IsTrimmed(RangeText(cTextValue, cChunks[k]))
          /\ Len(RangeText(cTextValue, cChunks[k])) > 50
    /\ Len(cChunks) =
          Cardinality({j \in 1..Len(cSegs) :
                          RangeLen(TrimRange(cTextValue, cSegs[j])) > 50})

\* A finished run that emitted a chunk cut from a segment with whitespace at an
\* end, and discarded a segment of trimmed length 50 or less.
C9_Witness ==
    /\ cPc = "done"
    /\ \E j \in 1..Len(cSegs) :
          /\ TrimRange(cTextValue, cSegs[j]) # cSegs[j]
          /\ \E k \in 1..Len(cChunks) : cChunks[k] = TrimRange(cTextValue, cSegs[j])
    /\ \E j \in 1..Len(cSegs) :
          /\ RangeLen(cSegs[j]) > 0
          /\ RangeLen(TrimRange(cTextValue, cSegs[j])) <= 50

\* ---- the store

Events(op) == {ret[k] : k \in {j \in 1..Len(ret) : ret[j].op = op}}

Stored(id) == \E c \in content : c.id = id

ChunksOf(id) == {c \in chunks : c.contentId = id}

Range(s) == {s[k] : k \in 1..Len(s)}

\* C1: when a storeContent call has finished, resolved or rejected, the store
\* holds its ContentItem together with all of its chunks, or neither the item
\* nor any of its chunks.
C1_StoreContentAtomic ==
    \A e \in Events("storeContent") :
        \/ Stored(e.item.id) /\ ChunksOf(e.item.id) = Range(e.item.chunks)
        \/ ~Stored(e.item.id) /\ ChunksOf(e.item.id) = {}

\* C2: at the moment deleteContent(id) resolves, its delete transaction has
\* completed: no deletion of the records of id is still pending.
C2_DeleteResolvesAfterCompletion ==
    \A e \in Events("deleteContent") :
        [kind |-> "delete", id |-> e.id] \notin Range(pendingTx)

\* C3: a searchContent or queryContent call issued after deleteContent(id) has
\* resolved returns no chunk and no source whose contentId is id.
C3_NoResultOfDeletedContent ==
    /\ \A e \in Events("searchContent") :
           \A r \in Range(e.results) : r.contentId \notin e.deleted
    /\ \A e \in Events("queryContent") :
           \A r \in Range(e.result.sources) : r.contentId \notin e.deleted

\* C4: ingestUrl of a url that is present in the store when it is called
\* succeeds, and the item it created is in the store beside the earlier one.
C4_ReingestCreatesSecondItem ==
    \A e \in Events("ingestUrl") :
        e.urlPresent =>
            /\ e.ok
            /\ Stored(e.item.id)
            /\ \E c \in content : c.url = e.url /\ c.id # e.item.id

\* C5: every chunk in the chunks store has an embedding of vectorDimensions
\* numbers.
C5_EmbeddingsHaveVectorDimensions ==
    \A c \in chunks : c.embedding.isArray /\ c.embedding.length = vectorDimensions

\* The store after one finished storeContent of the React page into the empty
\* store, and nothing else.
ReactStoredAlone ==
    /\ sc = NoCall
    /\ ing = NoCall
    /\ rd = NoCall
    /\ pendingTx = <<>>
    /\ resolvedDeletes = {}
    /\ faults = 0
    /\ nextId = 2
    /\ \E c \in content : content = {c} /\ c.id = 1 /\ c.title = ReactDoc

\* C6: after the React page alone is stored with the default chunk parameters,
\* the store holds exactly one chunk of it, searchContent("React") returns that
\* chunk, and queryContent("What is React?") answers with https://react.dev
\* among its sources.
C6_ReactEndToEnd ==
    ReactStoredAlone =>
        /\ Cardinality(ChunksOf(1)) = 1
        /\ \A limit \in SearchLimits :
               \E r \in Range(searchContent(chunks, 1, limit)) : r.contentId = 1
        /\ queryContent(chunks, 2) # NotEnoughInformation
        /\ \E r \in Range(queryContent(chunks, 2).sources) : r.url = Docs[ReactDoc].url

\* C10: the item a successful storeContent returns has totalChunks equal to
\* the length of its chunks list, chunkIndex 0..n-1 in order, distinct chunk
\* ids, its own id as every chunk's contentId, and the chunks store holds
\* exactly those chunks for that contentId.
C10_ItemStructure ==
    \A e \in Events("storeContent") :
        e.ok =>
            LET item == e.item
                n    == Len(item.chunks)
            IN  /\ item.totalChunks = n
                /\ \A k \in 1..n : item.chunks[k].chunkIndex = k - 1
                /\ \A j, k \in 1..n : j # k => item.chunks[j].id # item.chunks[k].id
                /\ \A k \in 1..n : item.chunks[k].contentId = item.id
                /\ ChunksOf(item.id) = Range(item.chunks)

\* C11: every searchContent call returns a list (it has no throwing exit), of
\* at most limit results, for every query (the empty one too) and every limit
\* from 0 on, and the empty list when both of its reads failed.
C11_SearchNeverFailsAndRespectsLimit ==
    \A e \in Events("searchContent") :
        /\ Len(e.results) <= e.limit
        /\ e.failed = {"text", "vector"} => e.results = <<>>

\* The empty query is searched with limit 1 in a store of several chunks, and
\* one result comes back.
C11_Witness ==
    \E e \in Events("searchContent") :
        /\ e.query = 5
        /\ e.limit = 1
        /\ Len(e.results) = 1
        /\ Cardinality(chunks) >= 2

\* The text relevance of the chunk a result is.
LexicalScore(q, r) == RelevanceTable[q][r.title][r.chunkIndex + 1]

\* C12: when some stored chunk has a positive text relevance for the query,
\* searchContent returns text results only, each with its text relevance; it
\* returns vector results only when no chunk has one, and then each result has
\* relevance 0.5; the two kinds are never mixed.
C12_FusionEitherOr ==
    \A e \in Events("searchContent") :
        IF e.lexical
        THEN /\ e.path = "text" \/ e.results = <<>>
             /\ \A r \in Range(e.results) :
                    r.relevance > 0 /\ r.relevance = LexicalScore(e.query, r)
        ELSE /\ e.path = "vector"
             /\ \A r \in Range(e.results) : r.relevance = VectorRelevance

\* C13: when some stored chunk has a positive text relevance for the query,
\* searchContent returns no chunk whose text relevance is 0, also when fewer
\* chunks than limit match.
C13_NoZeroScoreResult ==
    \A e \in Events("searchContent") :
        e.lexical => \A r \in Range(e.results) : LexicalScore(e.query, r) > 0

\* The 2-word phrases of a window of 2 slid over the query's words longer than
\* 2 characters.
SlidingPairs(words) == [i \in 1..(Len(words) - 1) |-> words[i] \o <<32>> \o words[i + 1]]

\* The additive formula as stated: title term, content term, 2-word phrases,
\* words, synonyms, topical bonus (in tenths).
StatedRelevance(query, title, chunkText) ==
    LET queryLower   == ToLowerCase(query)
        words        == QueryWords(queryLower)
        contentLower == ToLowerCase(chunkText)
    IN    (IF Includes(ToLowerCase(title), queryLower) THEN 10 ELSE 0)
        + (IF Includes(contentLower, queryLower) THEN 8 ELSE 0)
        + 6 * CountIncluded(contentLower, SlidingPairs(words))
        + 3 * CountIncluded(contentLower, words)
        + 2 * SumSeq([w \in 1..Len(words) |->
                        CountIncluded(contentLower, getSynonyms(words[w]))])
        + (IF hasSemanticRelevance(queryLower, contentLower) THEN 4 ELSE 0)

\* The same with the full query counted as one more phrase when the content
\* contains it.
StatedWithQueryPhrase(query, title, chunkText) ==
    StatedRelevance(query, title, chunkText)
    + (IF Includes(ToLowerCase(chunkText), ToLowerCase(query)) THEN 6 ELSE 0)

StatedTable ==
    [q \in QueryIds |-> [d \in DocIds |-> [i \in 1..Len(DocChunks[d]) |->
        StatedRelevance(Queries[q], Docs[d].title,
                        RangeText(Docs[d].content, DocChunks[d][i]))]]]

StatedWithQueryPhraseTable ==
    [q \in QueryIds |-> [d \in DocIds |-> [i \in 1..Len(DocChunks[d]) |->
        StatedWithQueryPhrase(Queries[q], Docs[d].title,
                              RangeText(Docs[d].content, DocChunks[d][i]))]]]

\* C14 as stated: the relevance textSearch gives a chunk is the additive
\* formula, in which the full query counts through the 0.8 content term only
\* and not as a phrase.
C14_RelevanceIsStatedFormula ==
    \A e \in Events("searchContent") :
        e.path = "text" =>
            \A r \in Range(e.results) :
                r.relevance = StatedTable[e.query][r.title][r.chunkIndex + 1]

\* C14 amended: the relevance textSearch gives a chunk is the additive formula
\* with the full query counted as one more 0.6 phrase when the content
\* contains it.
C14_RelevanceCountsQueryAsPhrase ==
    \A e \in Events("searchContent") :
        e.path = "text" =>
            \A r \in Range(e.results) :
                r.relevance = StatedWithQueryPhraseTable[e.query][r.title][r.chunkIndex + 1]

\* "artificial intelligence" is searched and the test article's chunk, which
\* contains the query, is a text result.
C14_Witness ==
    \E e \in Events("searchContent") :
        /\ e.path = "text"
        /\ e.query = 3
        /\ \E r \in Range(e.results) :
              /\ r.title = TestDoc
              /\ r.relevance = StatedTable[3][TestDoc][1] + 6

\* C15: when retrieval yields no chunk (on an empty store in particular),
\* queryContent returns the fixed "not enough information" answer, no sources
\* and totalChunks 0; when it yields k >= 1 chunks, the answer is a built one,
\* the sources are those k chunks (k <= 3) in rank order, and totalChunks = k.
C15_AnswerMatchesRetrieval ==
    \A e \in Events("queryContent") :
        LET k == Len(e.retrieved)
        IN  /\ nextId = 1 => k = 0
            /\ k = 0 => e.result = NotEnoughInformation
            /\ k >= 1 =>
                  /\ k <= 3
                  /\ e.result.answer.template
                        \in {"explanatory", "locational", "generic"}
                  /\ Len(e.result.sources) = k
                  /\ \A i \in 1..k :
                        /\ e.result.sources[i].url = e.retrieved[i].url
                        /\ e.result.sources[i].chunkIndex = e.retrieved[i].chunkIndex
                        /\ e.result.sources[i].relevance = e.retrieved[i].relevance
                  /\ \A i \in 1..(k - 1) :
                        e.result.sources[i].relevance >= e.result.sources[i + 1].relevance
                  /\ e.result.totalChunks = k

\* A question is answered from two or more retrieved chunks.
C15_Witness ==
    \E e \in Events("queryContent") :
        /\ Len(e.retrieved) >= 2
        /\ e.result.totalChunks = Len(e.retrieved)

\* The QueryRecord an answered call is to leave: its question, the answer and
\* the source URLs it returned, the fallback embedding of the question.
RecordOf(e, rec) ==
    /\ rec.question = e.query
    /\ rec.answer = e.result.answer
    /\ rec.sources = [k \in 1..Len(e.result.sources) |-> e.result.sources[k].url]
    /\ rec.queryEmbedding = generateMockEmbedding(Queries[e.query])

\* C16: a queryContent call that returns an answer built from retrieved chunks
\* adds exactly one new QueryRecord, holding the question, the returned answer,
\* the URLs of the returned sources and the fallback embedding of the question,
\* and leaves every other QueryRecord as it was.
C16_AnsweredQueryIsRecorded ==
    [][\A i \in 1..Len(ret') :
          (ret'[i].op = "queryContent" /\ Len(ret'[i].retrieved) >= 1) =>
              \E rec \in queries' :
                  /\ rec \notin queries
                  /\ queries' = queries \cup {rec}
                  /\ RecordOf(ret'[i], rec)]_vars

\* The records of the stores that do not belong to content id.
OthersOf(id, items, chunkRecords, embeddingRecords) ==
    <<{c \in items : c.id # id},
      {c \in chunkRecords : c.contentId # id},
      {e \in embeddingRecords : e.contentId # id}>>

\* C17: deleteContent(id) changes only the records of id: in the step of the
\* call and in the step in which its transaction ends, the queries are
\* unchanged, and so is every ContentItem, chunk and embedding of another id.
C17_DeleteContentFrame ==
    [][\A id \in 1..MaxItems :
          (\/ \E i \in 1..Len(ret') : ret'[i] = [op |-> "deleteContent", ok |-> TRUE, id |-> id]
           \/ /\ pendingTx # <<>>
              /\ Head(pendingTx) = [kind |-> "delete", id |-> id]
              /\ pendingTx' = Tail(pendingTx))
          => /\ queries' = queries
             /\ OthersOf(id, content', chunks', embeddings')
                    = OthersOf(id, content, chunks, embeddings)]_vars

\* The first item was stored and a second one after it; deleteContent of the
\* first has committed: it is gone, the second is stored with its chunks.
C17_Witness ==
    /\ pendingTx = <<>>
    /\ faults = 0
    /\ 1 \in resolvedDeletes
    /\ ~Stored(1)
    /\ ChunksOf(1) = {}
    /\ Stored(2)
    /\ ChunksOf(2) # {}

\* The sum of totalChunks over the items.
RECURSIVE SumTotalChunks(_)
SumTotalChunks(items) ==
    IF items = {} THEN 0
    ELSE LET c == CHOOSE x \in items : TRUE
         IN  c.totalChunks + SumTotalChunks(items \ {c})

\* No write and no transaction of the calls before this getStats failed.
EarlierCallsSucceeded(e) == faults = (IF e.failed /\ dbOpens THEN 1 ELSE 0)

\* C18: called in a quiescent state reached by successful storeContent,
\* deleteContent and clearAllData calls, with no call made meanwhile, getStats
\* reports totalContent as the number of
\* stored items, totalChunks as the sum of their totalChunks, which is the
\* number of chunk records, totalQueries as the number of QueryRecords, and
\* vectorDimensions 1536.
C18_StatsMatchStore ==
    \A e \in Events("getStats") :
        (e.quiet /\ e.callNo = calls /\ EarlierCallsSucceeded(e)) =>
            /\ e.totalContent = Cardinality(content)
            /\ e.totalChunks = SumTotalChunks(content)
            /\ e.totalChunks = Cardinality(chunks)
            /\ e.totalQueries = Cardinality(queries)
            /\ e.vectorDimensions = 1536

\* C19: a storage write failure during ingestion reaches the caller:
\* storeContent rejects whenever one of its writes fails, and an ingestUrl call
\* in which a storeContent write failed does not resolve successfully.
C19_WriteFailurePropagates ==
    /\ \A e \in Events("storeContent") : e.writeFailed => ~e.ok
    /\ \A e \in Events("ingestUrl") : e.writeFailed => ~e.ok

\* The item is in the content store and the chunks store holds its chunks.
Persisted(item) ==
    /\ \E c \in content : c = item
    /\ ChunksOf(item.id) = Range(item.chunks)

\* C20: a provider failure does not abort ingestion: an ingestUrl call for a
\* URL not stored yet, made while the storage works and no other call runs,
\* resolves with a persisted ContentItem, with no provider configured as well
\* as with a provider whose call fails; the fallback is taken in the same call.
C20_ProviderFailureDoesNotAbort ==
    \A e \in Events("ingestUrl") :
        (/\ ~e.urlPresent
         /\ dbOpens
         /\ faults = 0
         /\ e.quiet
         /\ e.callNo = calls)
        => e.ok /\ Persisted(e.item)

\* With a provider configured, whose extraction call fails, an ingestUrl call
\* of a URL not stored yet has resolved with its item persisted.
C20_Witness ==
    \E e \in Events("ingestUrl") :
        /\ ~useMockServices
        /\ ~e.urlPresent
        /\ faults = 0
        /\ e.quiet
        /\ e.callNo = calls
        /\ e.ok
        /\ Persisted(e.item)
        /\ e.item.totalChunks >= 1

\* No record of content id is among the records.
NoRecordOf(id, items, chunkRecords, embeddingRecords) ==
    /\ \A c \in items : c.id # id
    /\ \A c \in chunkRecords : c.contentId # id
    /\ \A e \in embeddingRecords : e.contentId # id

\* C21: with the database open, deleteContent(id) resolves without error for
\* every id, known or not; when the store holds no record of id its transaction
\* leaves the store unchanged; and after its transaction the store holds no
\* record of id, so that a second deleteContent(id) changes nothing.
C21_DeleteAbsentIsNoOp ==
    [][/\ \A i \in 1..Len(ret') :
             (ret'[i].op = "deleteContent" /\ dbOpens) => ret'[i].ok
       /\ \A id \in 0..MaxItems :
             (/\ pendingTx # <<>>
              /\ Head(pendingTx) = [kind |-> "delete", id |-> id]
              /\ pendingTx' = Tail(pendingTx)
              /\ faults' = faults)
             => /\ NoRecordOf(id, content, chunks, embeddings)
                    => UNCHANGED <<content, chunks, embeddings, queries>>
                /\ NoRecordOf(id, content', chunks', embeddings')]_vars

\* deleteContent of an id never created has run its transaction on a store
\* that holds an item.
C21_Witness ==
    /\ UnknownId \in resolvedDeletes
    /\ pendingTx = <<>>
    /\ faults = 0
    /\ content # {}
    /\ chunks # {}

\* C22: checkHealth always returns; it reports healthy with no issue exactly
\* when the storage handle is open, the read of the content store succeeds and
\* the four object stores exist, and unhealthy with at least one issue
\* otherwise.
C22_HealthReflectsStorage ==
    \A e \in Events("checkHealth") :
        /\ e.result.healthy
              <=> (e.handleOpen /\ e.readOk /\ ExpectedStores \subseteq ObjectStoreNames)
        /\ e.result.healthy => e.result.issues = <<>>
        /\ ~e.result.healthy => e.result.issues # <<>>

\* C23: ingestUrl does not wait for the provider for ever: a call that has
\* started eventually completes, by resolving or by rejecting, even when a
\* network call it awaits never answers.
C23_IngestUrlCompletes == (ing.pc # "idle") ~> (ing.pc = "idle")

C25_ReadsAfterClearFindNothing ==
    /\ \A e \in Events("getStats") :
           (e.cleared /\ e.callNo = calls) =>
               e.totalContent = 0 /\ e.totalChunks = 0 /\ e.totalQueries = 0
    /\ \A e \in Events("searchContent") :
           (e.cleared /\ e.path = "text") => e.results = <<>>

\* dot(a, b) and the squared norm, by position.
RECURSIVE SumOf(_, _)
SumOf(f, n) == IF n = 0 THEN 0 ELSE SumOf(f, n - 1) + f[n]

DotOf(a, b) == SumOf([i \in 1..Len(a) |-> a[i] * b[i]], Len(a))

HasZeroNorm(v) == \A i \in 1..Len(v) : v[i] = 0

\* C26: cosineSimilarity never divides by zero; it returns 0 when an argument
\* has zero norm (the all-zero and the empty vector) or when the lengths
\* differ, and dot(a, b) / (||a|| * ||b||) for all other arguments.
C26_CosineGuardsZeroNorm ==
    cosPc = "done" =>
        /\ similarity.normA # 0 /\ similarity.normB # 0
        /\ IF Len(vecA) # Len(vecB) \/ HasZeroNorm(vecA) \/ HasZeroNorm(vecB)
           THEN similarity.dot = 0
           ELSE similarity = [dot   |-> DotOf(vecA, vecB),
                              normA |-> DotOf(vecA, vecA),
                              normB |-> DotOf(vecB, vecB)]

C26_Witness ==
    /\ cosPc = "done"
    /\ Len(vecA) = MaxVecLen
    /\ Len(vecB) = MaxVecLen
    /\ HasZeroNorm(vecA)
    /\ ~HasZeroNorm(vecB)
    /\ similarity = Zero

\* Positions of the sentence terminators in the window [start, start + size).
TerminatorsIn(text, start, size) ==
    {i \in start..(start + size - 1) : text[i + 1] \in {Period, Exclamation, Question}}

\* C27: in every iteration whose window [start, start + chunkSize) does not
\* reach the end of the text, at start 0 and at later starts alike: when the
\* last terminator of the window lies beyond 70% of the window, the segment
\* ends right after it and the next start is its position + 1 - overlap;
\* otherwise the segment ends at the window's end and the next start is that
\* end - overlap.
C27_SentenceAwareCut ==
    [][(cSegs' # cSegs /\ cStart >= 0 /\ cStart + cSize < Len(cTextValue)) =>
          LET ends == TerminatorsIn(cTextValue, cStart, cSize)
              seg  == cSegs'[Len(cSegs')]
          IN  IF ends # {} /\ 10 * (SetMax(ends) - cStart) > 7 * cSize
              THEN /\ seg.hi = SetMax(ends) + 1
                   /\ cStart' = SetMax(ends) + 1 - cOverlap
              ELSE /\ seg.hi = cStart + cSize
                   /\ cStart' = cStart + cSize - cOverlap]_vars

\* The chunks of the store with a positive lexical score for query q.
Matching(q) == {c \in chunks : ChunkRelevance(q, c) > 0}

Returned(e) == {e.results[k].id : k \in 1..Len(e.results)}

\* C28: the lexical results of searchContent(query, K) are the K best matching
\* chunks (all of them when fewer match), each with its own score, in
\* non-increasing order of score; chunks of equal score are in the order of
\* their ids, among the returned ones and between a returned and an omitted
\* one, so that the store and the query determine the list.
C28_LexicalResultsRanked ==
    \A e \in Events("searchContent") :
        e.path = "text" =>
            /\ Len(e.results) = Min(e.limit, Cardinality(Matching(e.query)))
            /\ \A k \in 1..Len(e.results) :
                   \E c \in Matching(e.query) :
                       /\ c.id = e.results[k].id
                       /\ ChunkRelevance(e.query, c) = e.results[k].relevance
            /\ \A i, j \in 1..Len(e.results) :
                   i < j =>
                       \/ e.results[i].relevance > e.results[j].relevance
                       \/ /\ e.results[i].relevance = e.results[j].relevance
                          /\ KeyBefore(e.results[i].id, e.results[j].id)
            /\ \A k \in 1..Len(e.results) :
                   \A o \in Matching(e.query) :
                       o.id \notin Returned(e) =>
                           \/ ChunkRelevance(e.query, o) < e.results[k].relevance
                           \/ /\ ChunkRelevance(e.query, o) = e.results[k].relevance
                              /\ KeyBefore(e.results[k].id, o.id)

\* A search with limit 1 over three matching chunks: the one returned is not
\* the first of the store, a chunk of equal score and one of lower score are
\* left out.
C28_Witness ==
    \E e \in Events("searchContent") :
        /\ e.path = "text"
        /\ e.limit = 1
        /\ Len(e.results) = 1
        /\ \E o1, o2 \in Matching(e.query) :
              /\ KeyBefore(o1.id, e.results[1].id)
              /\ ChunkRelevance(e.query, o1) < e.results[1].relevance
              /\ o2.id # e.results[1].id
              /\ ChunkRelevance(e.query, o2) = e.results[1].relevance

\* C29: when a deleteContent or clearAllData call is made while a storeContent
\* call is in progress, then once the storeContent call has finished and the
\* transaction of the other call has completed, every chunk in the chunks
\* store has its ContentItem in the content store.
C29_NoOrphanChunks ==
    (sc = NoCall /\ pendingTx = <<>> /\ faults = 0) =>
        \A c \in chunks : Stored(c.contentId)

\* C30: the history is written on a best-effort basis.  When the write of the
\* QueryRecord fails, queryContent returns the answer, the sources and the
\* totalChunks built from the chunks it retrieved, as it does when the write
\* succeeds, and the queries store is unchanged; and no step of a queryContent
\* call that retrieves no chunk changes an object store.
C30_HistoryIsBestEffort ==
    [][/\ (rd.pc = "history" /\ rd' = NoCall /\ faults' # faults) =>
              /\ queries' = queries
              /\ ret' = <<QueryEvent(rd.query, QueryResult(rd.query, rd.retrieved),
                                     rd.deleted, rd.retrieved)>>
       /\ (rd.pc = "history" /\ rd' = NoCall /\ faults' = faults) =>
              ret' = <<QueryEvent(rd.query, QueryResult(rd.query, rd.retrieved),
                                  rd.deleted, rd.retrieved)>>
       /\ \A i \in 1..Len(ret') :
              (ret'[i].op = "queryContent" /\ ret'[i].retrieved = <<>>) =>
                  /\ UNCHANGED dbVars
                  /\ ret'[i].result.sources = <<>>
                  /\ ret'[i].result.totalChunks = 0
       /\ (rd'.pc = "vector" /\ rd'.op = "queryContent" /\ rd # rd') =>
              UNCHANGED dbVars]_vars

\* A query that retrieved a chunk has returned its answer, and its QueryRecord
\* is not in the store: the write failed.
C30_Witness ==
    \E e \in Events("queryContent") :
        /\ e.retrieved # <<>>
        /\ e.result.totalChunks = Len(e.retrieved)
        /\ e.result.sources # <<>>
        /\ queries = {}
        /\ nextQueryId = 2
        /\ faults = 1

====
